---- MODULE Spec2Model ----
(***************************************************************************)
(* Job-listing reconciliation of job_scraper.py: the identity generator    *)
(* (generate_job_id), the scrape pass (extract_job_details, fetch_jobs),   *)
(* the merge (update_job_listings) and the spreadsheet store               *)
(* (load_existing_jobs, save_jobs) driven by main.                         *)
(*                                                                         *)
(* Dates are day numbers.  A 'YYYY-MM-DD' string of day n is               *)
(* [kind |-> "str", day |-> n]; a pandas Timestamp of day n is             *)
(* [kind |-> "ts", day |-> n]; day 0 is the missing value (the empty       *)
(* string or NaN of a cell, NaT of a datetime column).                     *)
(***************************************************************************)
EXTENDS Integers, Sequences, FiniteSets, TLC

\* ------------------------------------------------------------------ bounds
MaxDate == 2      \* calendar days 1..MaxDate
MaxBatch == 2     \* most postings extracted in one scrape pass
MaxRows == 2      \* longest dataset the merge starts from
MaxStrLen == 1    \* longest Title/Company/Location given to generate_job_id

Days == 1..MaxDate
Runs == {1, 2}

\* ------------------------------------------------------------- date values
DateStr(n) == [kind |-> "str", day |-> n]
Timestamp(n) == [kind |-> "ts", day |-> n]

\* datetime.now(timezone.utc).strftime('%Y-%m-%d') when the clock shows day n
strftime_now(n) == DateStr(n)

\* pd.to_datetime on a column value: strings are parsed, Timestamps kept,
\* the missing value becomes NaT (day 0)
to_datetime(v) == Timestamp(v.day)

\* Series.dt.strftime('%Y-%m-%d') on a column value: NaT becomes a missing cell
dt_strftime(v) == DateStr(v.day)

\* --------------------------------------------------------- scraped elements
Absent == "<absent>"

\* the <a> elements a page can show: title, company, location, job type,
\* time paragraphs (Absent when safe_find_element returns None) and the href
Elements ==
  { [title |-> "Eng", company |-> "Acme", location |-> "Remote",
     job_type |-> "Full", time |-> "1d", href |-> "u1"],
    [title |-> "Eng", company |-> "Acme", location |-> "Remote",
     job_type |-> "Part", time |-> "2d", href |-> "u2"],
    [title |-> "Dev", company |-> "Acme", location |-> Absent,
     job_type |-> Absent, time |-> Absent, href |-> "u3"],
    [title |-> Absent, company |-> "Acme", location |-> "Remote",
     job_type |-> "Full", time |-> "1d", href |-> "u4"] }

None == [none |-> TRUE]

\* ------------------------------------------------------- identity generator
\* hashlib.md5(s.encode()).hexdigest(), taken as injective on its input
md5_hexdigest(s) == <<"md5", s>>

\* variant: Location left out of the hashed string
generate_job_id_NoLocation(job_data) ==
  md5_hexdigest(job_data.Title \o job_data.Company)

generate_job_id(job_data) ==
  md5_hexdigest(job_data.Title \o job_data.Company \o job_data.Location)

\* -------------------------------------------------------------- extraction
\* now: the clock day at extraction (the two reads of lines 100 and 101 are
\* taken at one instant)
extract_job_details(job_element, now) ==
  IF job_element.title = Absent \/ job_element.company = Absent
  THEN None
  ELSE LET job_details ==
             [Title |-> job_element.title,
              Company |-> job_element.company,
              Location |-> IF job_element.location # Absent
                           THEN job_element.location
                           ELSE "Location not specified",
              JobType |-> IF job_element.job_type # Absent
                          THEN job_element.job_type
                          ELSE "Not specified",
              Time_Posted |-> IF job_element.time # Absent
                              THEN job_element.time
                              ELSE "",
              Link |-> job_element.href,
              FirstSeen |-> strftime_now(now),
              LastSeen |-> strftime_now(now),
              Status |-> "Active"]
       IN [Title |-> job_details.Title,
           Company |-> job_details.Company,
           Location |-> job_details.Location,
           JobType |-> job_details.JobType,
           Time_Posted |-> job_details.Time_Posted,
           Link |-> job_details.Link,
           FirstSeen |-> job_details.FirstSeen,
           LastSeen |-> job_details.LastSeen,
           Status |-> job_details.Status,
           JobID |-> generate_job_id(job_details)]

\* ------------------------------------------------------------- scrape pass
JobIDs(df) == {df[i].JobID : i \in 1..Len(df)}

\* variant: existing_ids is not extended while the page is processed
KeepOnPage_NoPageIds(jobs, page_jobs, job_details) ==
  IF job_details # None /\ job_details.JobID \notin JobIDs(jobs)
  THEN Append(page_jobs, job_details)
  ELSE page_jobs

\* one iteration of the loop over job_elements: the posting is kept unless
\* extraction failed or its Job ID is in existing_ids (the ids of jobs and
\* of the postings already kept on this page)
KeepOnPage(jobs, page_jobs, job_details) ==
  IF job_details # None
     /\ job_details.JobID \notin (JobIDs(jobs) \cup JobIDs(page_jobs))
  THEN Append(page_jobs, job_details)
  ELSE page_jobs

\* ------------------------------------------------------------------- merge
\* existing_df['Status'] = 'Inactive'
MarkInactive(df) ==
  [i \in 1..Len(df) |-> [df[i] EXCEPT !.Status = "Inactive"]]

\* variant: the lookup is skipped and every posting is appended
ProcessJob_AlwaysAppend(df, new_job, today) == Append(df, new_job)

\* variant: a reappearing posting also refreshes Job Type and Link
ProcessJob_Refresh(df, new_job, today) ==
  IF \E i \in 1..Len(df) : df[i].JobID = new_job.JobID
  THEN [i \in 1..Len(df) |->
          IF df[i].JobID = new_job.JobID
          THEN [df[i] EXCEPT !.LastSeen = today, !.Status = "Active",
                             !.JobType = new_job.JobType, !.Link = new_job.Link]
          ELSE df[i]]
  ELSE Append(df, new_job)

\* variant: only the first matching row is updated
ProcessJob_FirstMatch(df, new_job, today) ==
  IF \E i \in 1..Len(df) : df[i].JobID = new_job.JobID
  THEN LET first == CHOOSE i \in 1..Len(df) :
                      /\ df[i].JobID = new_job.JobID
                      /\ \A j \in 1..(i - 1) : df[j].JobID # new_job.JobID
       IN [df EXCEPT ![first] =
             [df[first] EXCEPT !.LastSeen = today, !.Status = "Active"]]
  ELSE Append(df, new_job)

\* one iteration of the loop over new_df.iterrows()
ProcessJob(df, new_job, today) ==
  IF \E i \in 1..Len(df) : df[i].JobID = new_job.JobID
  THEN [i \in 1..Len(df) |->
          IF df[i].JobID = new_job.JobID
          THEN [df[i] EXCEPT !.LastSeen = today, !.Status = "Active"]
          ELSE df[i]]
  ELSE Append(df, new_job)

RECURSIVE ProcessJobs(_, _, _)
ProcessJobs(df, new_jobs, today) ==
  IF new_jobs = <<>>
  THEN df
  ELSE ProcessJobs(ProcessJob(df, Head(new_jobs), today), Tail(new_jobs), today)

\* existing_df['First Seen'] = pd.to_datetime(existing_df['First Seen'])
ConvertFirstSeen(df) ==
  [i \in 1..Len(df) |-> [df[i] EXCEPT !.FirstSeen = to_datetime(@)]]

\* row a sorts strictly before row b under ['Status', 'First Seen'],
\* ascending=[True, False]; NaT (day 0) is placed last
SortsBefore(a, b) ==
  \/ a.Status = "Active" /\ b.Status = "Inactive"
  \/ a.Status = b.Status /\ a.FirstSeen.day > b.FirstSeen.day

\* stable insertion of a row into a sorted frame
InsertRow(sorted, row) ==
  LET k == Cardinality({i \in 1..Len(sorted) : ~SortsBefore(row, sorted[i])})
  IN SubSeq(sorted, 1, k) \o <<row>> \o SubSeq(sorted, k + 1, Len(sorted))

RECURSIVE SortFrom(_, _)
SortFrom(sorted, rest) ==
  IF rest = <<>> THEN sorted
  ELSE SortFrom(InsertRow(sorted, Head(rest)), Tail(rest))

\* variant: only the Active rows are returned
sort_values_ActiveOnly(df) ==
  SortFrom(<<>>, SelectSeq(df, LAMBDA row : row.Status = "Active"))

\* df.sort_values(['Status', 'First Seen'], ascending=[True, False])
\*   .reset_index(drop=True): a stable lexicographic sort
sort_values(df) == SortFrom(<<>>, df)

update_job_listings(existing_df, new_jobs, now) ==
  LET today == strftime_now(now)
  IN sort_values(ConvertFirstSeen(
       ProcessJobs(MarkInactive(existing_df), new_jobs, today)))

\* ------------------------------------------------------------------- store
\* df['First Seen'].dt.strftime('%Y-%m-%d'); df.to_excel(FILE_NAME)
save_jobs(df) ==
  [i \in 1..Len(df) |-> [df[i] EXCEPT !.FirstSeen = dt_strftime(@)]]

\* variant: the file is not read and an empty frame is returned
load_existing_jobs_Empty(file) == <<>>

\* pd.read_excel(FILE_NAME): the rows as written
load_existing_jobs(file) == file

\* ---------------------------------------------------------------- state
VARIABLES
  clock,        \* the current UTC calendar day
  \* -- one caller: scrape pass, then update_job_listings, call after call
  phase,        \* "idle"/scraping, "fetched" (batch complete), "updated"
  jobs,         \* fetch_jobs: postings kept on the pages already finished
  page_jobs,    \* fetch_jobs: postings kept on the current page
  extracted,    \* history: every posting extracted in this pass, in order
  source,       \* how the batch was produced: "fetch_jobs" (loop left by
                \* break), "fetch_jobs_except" (by an exception) or "direct"
  df,           \* the dataset held by the caller
  df_in,        \* existing_df as passed to the last call
  new_jobs,     \* the batch passed to the last call
  now_in,       \* the clock day read by the last call (0 before any call)
  outcome,      \* how the last call ended: "none", "returned" or an error name
  keys_seen,    \* history: keys of the initial dataset and of every batch merged
  first_seen,   \* history: <<key, day>> of the First Seen each key was stored with
  \* -- two runs of main() on one spreadsheet
  file,         \* the rows of job_listings.xlsx
  pc,           \* per run: "start", "scraping", "fetched", "updated", "done"
  existing_df,  \* per run: the frame load_existing_jobs returned
  run_jobs,     \* per run: fetch_jobs' jobs, then new_jobs
  run_page,     \* per run: fetch_jobs' page_jobs
  updated_df,   \* per run: the frame update_job_listings returned
  inserted,     \* history, per run: the keys the run's merge inserted
  overlap,      \* history: a run loaded while the other was between load and save
  \* -- generate_job_id on two postings
  posting_a, posting_b,   \* the postings
  id_a, id_b              \* their Job IDs, "none" before they are computed

mergeVars == <<phase, jobs, page_jobs, extracted, source, df, df_in, new_jobs,
               now_in, outcome, keys_seen, first_seen>>
runVars == <<file, pc, existing_df, run_jobs, run_page, updated_df, inserted,
             overlap>>
idVars == <<posting_a, posting_b, id_a, id_b>>
vars == <<clock, mergeVars, runVars, idVars>>

\* ------------------------------------------------------- initial datasets
ValidElements == {e \in Elements : extract_job_details(e, 1) # None}

\* rows a spreadsheet written on day 1 can hold
StoredRows ==
  {[extract_job_details(e, 1) EXCEPT !.Status = s] :
     e \in ValidElements, s \in {"Active", "Inactive"}}

RECURSIVE SeqsUpTo(_, _)
SeqsUpTo(S, n) ==
  IF n = 0 THEN {<<>>}
  ELSE LET R == SeqsUpTo(S, n - 1)
       IN R \cup {Append(q, x) : q \in {r \in R : Len(r) = n - 1}, x \in S}

UniqueKeys(d) == \A i, j \in 1..Len(d) : d[i].JobID = d[j].JobID => i = j

\* the file is always written from the sorted frame update_job_listings returns
IsSorted(d) == \A i, j \in 1..Len(d) : i < j => ~SortsBefore(d[j], d[i])

AnyDatasets == {d \in SeqsUpTo(StoredRows, MaxRows) : IsSorted(d)}
InitDatasets == {d \in AnyDatasets : UniqueKeys(d)}

FirstSeenOf(d) == {<<d[i].JobID, d[i].FirstSeen.day>> : i \in 1..Len(d)}

\* ------------------------------- scrape pass and merge, call after call
MergeIdle ==
  /\ phase = "idle"
  /\ jobs = <<>>
  /\ page_jobs = <<>>
  /\ extracted = <<>>
  /\ source = "none"
  /\ df = <<>>
  /\ df_in = <<>>
  /\ new_jobs = <<>>
  /\ now_in = 0
  /\ outcome = "none"
  /\ keys_seen = {}
  /\ first_seen = {}

RunsIdle ==
  /\ file = <<>>
  /\ pc = [r \in Runs |-> "start"]
  /\ existing_df = [r \in Runs |-> <<>>]
  /\ run_jobs = [r \in Runs |-> <<>>]
  /\ run_page = [r \in Runs |-> <<>>]
  /\ updated_df = [r \in Runs |-> <<>>]
  /\ inserted = [r \in Runs |-> {}]
  /\ overlap = FALSE

NoPosting == [Title |-> <<>>, Company |-> <<>>, Location |-> <<>>]

IdIdle ==
  /\ posting_a = NoPosting
  /\ posting_b = NoPosting
  /\ id_a = "none"
  /\ id_b = "none"

InitMergeWith(datasets) ==
  /\ RunsIdle
  /\ IdIdle
  /\ clock = 1
  /\ phase = "idle"
  /\ jobs = <<>>
  /\ page_jobs = <<>>
  /\ extracted = <<>>
  /\ source = "none"
  /\ df \in datasets
  /\ df_in = <<>>
  /\ new_jobs = <<>>
  /\ now_in = 0
  /\ outcome = "none"
  /\ keys_seen = JobIDs(df)
  /\ first_seen = FirstSeenOf(df)

InitMerge == InitMergeWith(InitDatasets)
\* any file, a Job ID may be repeated
InitMalformed == InitMergeWith(AnyDatasets)

\* midnight UTC passes while a pass is scraping or waiting to merge (a
\* midnight after the merge returned is one before the next pass starts)
Tick ==
  /\ phase # "updated"
  /\ clock < MaxDate
  /\ clock' = clock + 1
  /\ UNCHANGED <<mergeVars, runVars, idVars>>

\* fetch_jobs, one job_element of the current page
ExtractJob(e) ==
  /\ UNCHANGED <<runVars, idVars>>
  /\ phase = "idle"
  /\ Len(extracted) < MaxBatch
  /\ LET job_details == extract_job_details(e, clock)
     IN /\ page_jobs' = KeepOnPage(jobs, page_jobs, job_details)
        /\ extracted' = IF job_details # None
                        THEN Append(extracted, job_details)
                        ELSE extracted
  /\ UNCHANGED <<clock, phase, jobs, source, df, df_in, new_jobs, now_in, outcome,
                 keys_seen, first_seen>>

\* fetch_jobs, end of a page: jobs.extend(page_jobs), then either the
\* "Load more jobs" click succeeds or the loop breaks and jobs is returned
EndPage(more) ==
  /\ UNCHANGED <<runVars, idVars>>
  /\ phase = "idle"
  /\ jobs' = jobs \o page_jobs
  /\ page_jobs' = <<>>
  /\ IF more
     THEN UNCHANGED <<phase, source, new_jobs>>
     ELSE /\ phase' = "fetched"
          /\ source' = "fetch_jobs"
          /\ new_jobs' = jobs'
  /\ UNCHANGED <<clock, extracted, df, df_in, now_in, outcome, keys_seen,
                 first_seen>>

\* fetch_jobs, an exception reaches the outer handler: jobs is returned
\* without the postings of the unfinished page
ScrapeError ==
  /\ UNCHANGED <<runVars, idVars>>
  /\ phase = "idle"
  /\ phase' = "fetched"
  /\ source' = "fetch_jobs_except"
  /\ new_jobs' = jobs
  /\ page_jobs' = <<>>
  /\ UNCHANGED <<clock, jobs, extracted, df, df_in, now_in, outcome,
                 keys_seen, first_seen>>

\* a caller that hands the extracted postings to update_job_listings as
\* they are, without the filtering of fetch_jobs
DirectBatch ==
  /\ UNCHANGED <<runVars, idVars>>
  /\ phase = "idle"
  /\ phase' = "fetched"
  /\ source' = "direct"
  /\ new_jobs' = extracted
  /\ UNCHANGED <<clock, jobs, page_jobs, extracted, df, df_in, now_in,
                 outcome, keys_seen, first_seen>>

\* updated_df = update_job_listings(existing_df, new_jobs)
Update ==
  /\ UNCHANGED <<runVars, idVars>>
  /\ phase = "fetched"
  /\ phase' = "updated"
  /\ df_in' = df
  /\ now_in' = clock
  /\ df' = update_job_listings(df, new_jobs, clock)
  /\ outcome' = "returned"
  /\ keys_seen' = keys_seen \cup JobIDs(new_jobs)
  /\ first_seen' = first_seen \cup
        {p \in FirstSeenOf(df') : p[1] \notin JobIDs(df)}
  /\ UNCHANGED <<clock, jobs, page_jobs, extracted, source, new_jobs>>

\* the caller keeps the returned dataset for the next pass
NextCall ==
  /\ UNCHANGED <<runVars, idVars>>
  /\ phase = "updated"
  /\ phase' = "idle"
  /\ jobs' = <<>>
  /\ page_jobs' = <<>>
  /\ extracted' = <<>>
  /\ source' = "none"
  /\ new_jobs' = <<>>
  /\ df_in' = <<>>
  /\ now_in' = 0
  /\ outcome' = "none"
  /\ UNCHANGED <<clock, df, keys_seen, first_seen>>

NextMerge ==
  \/ Tick
  \/ \E e \in Elements : ExtractJob(e)
  \/ \E more \in BOOLEAN : EndPage(more)
  \/ ScrapeError
  \/ DirectBatch
  \/ Update
  \/ NextCall

SpecMerge == InitMerge /\ [][NextMerge]_vars

\* one pass and one call on a file that may repeat a Job ID
NextMalformed ==
  \/ Tick
  \/ \E e \in Elements : ExtractJob(e)
  \/ \E more \in BOOLEAN : EndPage(more)
  \/ ScrapeError
  \/ DirectBatch
  \/ Update

SpecMalformed == InitMalformed /\ [][NextMalformed]_vars

\* --------------------------------------- two runs of main() on one file
Init ==
  /\ MergeIdle
  /\ IdIdle
  /\ clock = 1
  /\ file \in InitDatasets
  /\ pc = [r \in Runs |-> "start"]
  /\ existing_df = [r \in Runs |-> <<>>]
  /\ run_jobs = [r \in Runs |-> <<>>]
  /\ run_page = [r \in Runs |-> <<>>]
  /\ updated_df = [r \in Runs |-> <<>>]
  /\ inserted = [r \in Runs |-> {}]
  /\ overlap = FALSE

InFlight(r) == pc[r] \in {"scraping", "fetched", "updated"}

\* existing_df = load_existing_jobs()
RunLoad(r) ==
  /\ pc[r] = "start"
  /\ pc' = [pc EXCEPT ![r] = "scraping"]
  /\ existing_df' = [existing_df EXCEPT ![r] = load_existing_jobs(file)]
  /\ overlap' = (overlap \/ \E o \in Runs \ {r} : InFlight(o))
  /\ UNCHANGED <<clock, file, run_jobs, run_page, updated_df, inserted>>
  /\ UNCHANGED <<mergeVars, idVars>>

\* fetch_jobs, one job_element of the current page
RunExtractJob(r, e) ==
  /\ pc[r] = "scraping"
  /\ run_page' = [run_page EXCEPT ![r] =
        KeepOnPage(run_jobs[r], run_page[r], extract_job_details(e, clock))]
  /\ UNCHANGED <<clock, file, pc, existing_df, run_jobs, updated_df, inserted,
                 overlap>>
  /\ UNCHANGED <<mergeVars, idVars>>

\* fetch_jobs, end of a page
RunEndPage(r, more) ==
  /\ pc[r] = "scraping"
  /\ run_jobs' = [run_jobs EXCEPT ![r] = run_jobs[r] \o run_page[r]]
  /\ run_page' = [run_page EXCEPT ![r] = <<>>]
  /\ pc' = [pc EXCEPT ![r] = IF more THEN "scraping" ELSE "fetched"]
  /\ UNCHANGED <<clock, file, existing_df, updated_df, inserted, overlap>>
  /\ UNCHANGED <<mergeVars, idVars>>

\* fetch_jobs, an exception reaches the outer handler
RunScrapeError(r) ==
  /\ pc[r] = "scraping"
  /\ run_page' = [run_page EXCEPT ![r] = <<>>]
  /\ pc' = [pc EXCEPT ![r] = "fetched"]
  /\ UNCHANGED <<clock, file, existing_df, run_jobs, updated_df, inserted,
                 overlap>>
  /\ UNCHANGED <<mergeVars, idVars>>

\* updated_df = update_job_listings(existing_df, new_jobs); the two
\* arguments are not used again
RunUpdate(r) ==
  /\ pc[r] = "fetched"
  /\ pc' = [pc EXCEPT ![r] = "updated"]
  /\ updated_df' = [updated_df EXCEPT ![r] =
        update_job_listings(existing_df[r], run_jobs[r], clock)]
  /\ inserted' = [inserted EXCEPT ![r] =
        JobIDs(run_jobs[r]) \ JobIDs(existing_df[r])]
  /\ existing_df' = [existing_df EXCEPT ![r] = <<>>]
  /\ run_jobs' = [run_jobs EXCEPT ![r] = <<>>]
  /\ UNCHANGED <<clock, file, run_page, overlap>>
  /\ UNCHANGED <<mergeVars, idVars>>

\* save_jobs(updated_df)
RunSave(r) ==
  /\ pc[r] = "updated"
  /\ pc' = [pc EXCEPT ![r] = "done"]
  /\ file' = save_jobs(updated_df[r])
  /\ updated_df' = [updated_df EXCEPT ![r] = <<>>]
  /\ UNCHANGED <<clock, existing_df, run_jobs, run_page, inserted, overlap>>
  /\ UNCHANGED <<mergeVars, idVars>>

Next ==
  \/ Tick
  \/ \E r \in Runs : RunLoad(r)
  \/ \E r \in Runs, e \in Elements : RunExtractJob(r, e)
  \/ \E r \in Runs, more \in BOOLEAN : RunEndPage(r, more)
  \/ \E r \in Runs : RunScrapeError(r)
  \/ \E r \in Runs : RunUpdate(r)
  \/ \E r \in Runs : RunSave(r)

Spec == Init /\ [][Next]_vars

\* ----------------------------------------- generate_job_id on two postings
Alphabet == {"a", "b"}
Strings == SeqsUpTo(Alphabet, MaxStrLen)
Postings == [Title : Strings, Company : Strings, Location : Strings]

InitId ==
  /\ MergeIdle
  /\ RunsIdle
  /\ clock = 1
  /\ posting_a \in Postings
  /\ posting_b \in Postings
  /\ id_a = "none"
  /\ id_b = "none"

GenerateIds ==
  /\ id_a = "none"
  /\ id_a' = generate_job_id(posting_a)
  /\ id_b' = generate_job_id(posting_b)
  /\ UNCHANGED <<posting_a, posting_b>>
  /\ UNCHANGED <<clock, mergeVars, runVars>>

NextId == GenerateIds

SpecId == InitId /\ [][NextId]_vars

\* ------------------------------------------------------------------ claims
Updated == phase = "updated"
Today == strftime_now(now_in)
RowsOf(d, k) == {i \in 1..Len(d) : d[i].JobID = k}
NewKeys == JobIDs(new_jobs) \ JobIDs(df_in)
RepeatedKeys(b) == {b[i].JobID : i \in {n \in 1..Len(b) : \E m \in 1..Len(b) : m # n /\ b[m].JobID = b[n].JobID}}

\* C1: after update_job_listings(D, B) on day t, with D unique by key, every
\* key of B is in the output with Status Active and Last Seen t, and every
\* key of D that is not in B is in the output with Status Inactive and the
\* Last Seen it had in D.
C1_StatusCorrectness ==
  Updated /\ UniqueKeys(df_in) =>
    /\ \A k \in JobIDs(new_jobs) :
         /\ RowsOf(df, k) # {}
         /\ \A j \in RowsOf(df, k) :
              df[j].Status = "Active" /\ df[j].LastSeen = Today
    /\ \A i \in 1..Len(df_in) :
         df_in[i].JobID \notin JobIDs(new_jobs) =>
           /\ RowsOf(df, df_in[i].JobID) # {}
           /\ \A j \in RowsOf(df, df_in[i].JobID) :
                df[j].Status = "Inactive" /\ df[j].LastSeen = df_in[i].LastSeen

\* C2: starting from a dataset with one record per Job ID, the dataset has
\* one record per Job ID after every call, whatever the batches (a batch may
\* repeat a key).
C2_UniqueKeys == UniqueKeys(df)

C2_Witness ==
  /\ Updated
  /\ RepeatedKeys(new_jobs) \cap NewKeys # {}
  /\ Len(df_in) > 0

\* C3: calling update_job_listings again on its own output, with the same
\* batch on the same day, returns that output unchanged (same rows, same
\* values, same order).
C3_Idempotent ==
  Updated => update_job_listings(df, new_jobs, now_in) = df

\* C4: the keys of the dataset are the keys of the initial dataset and of
\* every batch merged so far, and one call returns as many rows as D has plus
\* the number of distinct batch keys that were not in D.
C4_NeverDeleted ==
  /\ JobIDs(df) = keys_seen
  /\ Updated => Len(df) = Len(df_in) + Cardinality(NewKeys)

C4_Witness ==
  /\ Updated
  /\ JobIDs(df_in) \ JobIDs(new_jobs) # {}
  /\ NewKeys # {}
  /\ Len(df) > Len(df_in)

\* C5: a call changes only Last Seen and Status of a record whose key is in
\* the batch: Title, Company, Location, Job Type, Link and the First Seen
\* date of every stored record stay as stored, and over all calls each key
\* keeps the First Seen date it was first stored with.
C5_StickyFields ==
  /\ \A j \in 1..Len(df) : <<df[j].JobID, df[j].FirstSeen.day>> \in first_seen
  /\ \A p, q \in first_seen : p[1] = q[1] => p = q
  /\ Updated =>
       \A i \in 1..Len(df_in) : \A j \in RowsOf(df, df_in[i].JobID) :
         /\ df[j].Title = df_in[i].Title
         /\ df[j].Company = df_in[i].Company
         /\ df[j].Location = df_in[i].Location
         /\ df[j].JobType = df_in[i].JobType
         /\ df[j].Link = df_in[i].Link
         /\ df[j].FirstSeen.day = df_in[i].FirstSeen.day

C5_Witness ==
  /\ Updated
  /\ \E i \in 1..Len(df_in), n \in 1..Len(new_jobs) :
       /\ df_in[i].JobID = new_jobs[n].JobID
       /\ df_in[i].Link # new_jobs[n].Link
       /\ df_in[i].JobType # new_jobs[n].JobType
       /\ df_in[i].FirstSeen.day # now_in
       /\ \E j \in RowsOf(df, df_in[i].JobID) : df[j].LastSeen = Today

\* C8: one date is used for all records a run touches: every record of the
\* returned dataset whose key is in the batch has Last Seen = t, the day of
\* the merge, and every inserted record has First Seen = Last Seen = t.
C8_UniformDate ==
  Updated =>
    \A j \in 1..Len(df) :
      /\ df[j].JobID \in JobIDs(new_jobs) => df[j].LastSeen.day = now_in
      /\ df[j].JobID \in NewKeys =>
           df[j].FirstSeen.day = now_in /\ df[j].LastSeen.day = now_in

\* the postings of s whose key does not occur earlier in s, in order
RECURSIVE FirstOccurrences(_)
FirstOccurrences(s) ==
  IF s = <<>> THEN <<>>
  ELSE LET init == SubSeq(s, 1, Len(s) - 1)
           last == s[Len(s)]
       IN IF last.JobID \in JobIDs(init)
          THEN FirstOccurrences(init)
          ELSE Append(FirstOccurrences(init), last)

IsPrefix(a, b) == Len(a) <= Len(b) /\ a = SubSeq(b, 1, Len(a))

\* C9: the batch fetch_jobs returns holds, for every key extracted in the
\* pass, only its first occurrence in extraction order (same page or not),
\* and merging a batch in which a new key occurs twice adds one record for
\* that key.
C9_BatchDedup ==
  /\ source = "fetch_jobs" => new_jobs = FirstOccurrences(extracted)
  /\ source = "fetch_jobs_except" => IsPrefix(new_jobs, FirstOccurrences(extracted))
  /\ Updated =>
       \A k \in RepeatedKeys(new_jobs) \cap NewKeys :
         Cardinality(RowsOf(df, k)) = 1

C9_Witness ==
  /\ Updated
  /\ source = "fetch_jobs"
  /\ Len(new_jobs) < Len(extracted)
  /\ NewKeys # {}
  /\ Len(df) = Len(df_in) + 1

\* C6 as claimed: a call on a dataset with a repeated Job ID ends with
\* MalformedDatasetError instead of returning, and a call on a dataset
\* unique by key never ends with that error.
C6_MalformedDatasetError ==
  Updated =>
    (outcome = "MalformedDatasetError") = ~UniqueKeys(df_in)

\* C6 amended: no call ends with an error; on a dataset with a repeated Job
\* ID the call returns a dataset that still holds every copy, all copies of
\* a key carrying the same Status and, when the key is in the batch, the day
\* of the merge as Last Seen.
C6_DuplicatesKept ==
  Updated =>
    /\ outcome = "returned"
    /\ \A k \in JobIDs(df_in) :
         /\ Cardinality(RowsOf(df, k)) = Cardinality(RowsOf(df_in, k))
         /\ \A i, j \in RowsOf(df, k) : df[i].Status = df[j].Status
         /\ k \in JobIDs(new_jobs) =>
              \A j \in RowsOf(df, k) : df[j].LastSeen = Today

C6_Witness ==
  /\ Updated
  /\ outcome = "returned"
  /\ \E k \in JobIDs(df_in) \cap JobIDs(new_jobs) :
       /\ Cardinality(RowsOf(df_in, k)) > 1
       /\ Cardinality(RowsOf(df, k)) > 1

\* the characters of Title, then Company, then Location, one after another
Flat(p) ==
  LET t == Len(p.Title)
      c == Len(p.Company)
      l == Len(p.Location)
  IN [i \in 1..(t + c + l) |->
        IF i <= t THEN p.Title[i]
        ELSE IF i <= t + c THEN p.Company[i - t]
        ELSE p.Location[i - t - c]]

Hashed == id_a # "none"

AllDone == \A r \in Runs : pc[r] = "done"

====
